---- MODULE Spec2Model ----
(***************************************************************************)
(* A model of custom_components/raritan-pdu: the RaritanPDU device, its    *)
(* RaritanPDUOutlet objects and the SNMPManager.snmp_get link they poll.   *)
(*                                                                         *)
(* Representation.                                                         *)
(*  - A Python str is a sequence of one-character strings, so that         *)
(*    startswith, split and isdigit are computed and not assumed.          *)
(*  - A value returned by snmp_get is a tagged record: IntVal(n) for a     *)
(*    Python int, StrVal(s) for a Python str.                              *)
(*  - Timestamps (time.time()) are whole seconds.                          *)
(*  - energy_delivered and initial_energy_delivered are Python floats in   *)
(*    watt-hours; the model holds them exactly, as a whole number of       *)
(*    1/UnitsPerWh watt-hours (float rounding is not modelled).            *)
(*  - cpu_temperature is the rational num/den.                             *)
(*  - An async method is cut at its awaits: the code between two awaits    *)
(*    runs without interruption on the event loop and is one action.       *)
(*  - A dict that a method returns is held with a mark that tells whether  *)
(*    it is the outlet's own sensor_data object or another object.         *)
(*                                                                         *)
(* Specifications.  Spec is the platform's use of one device: one caller   *)
(* that awaits every call.  SpecRead adds the callers of get_data and what *)
(* they do with the dict they get.  SpecHistory records, next to the       *)
(* serialized calls, the requests each call sent and the time of the last  *)
(* update_data that completed.  SpecOverlap lets two tasks call            *)
(* update_data on the same device without awaiting each other.             *)
(***************************************************************************)
EXTENDS Integers, Sequences, FiniteSets, TLC

(***************************************************************************)
(* Bounds of the model.                                                    *)
(***************************************************************************)
\* the largest outletCount the device reports
MaxOutlets == 2
\* the number of update_data calls of one behaviour
MaxCalls == 3
\* time.time() returns one of the whole hours 1..MaxTicks (in seconds)
MaxTicks == 2

\* the coroutines that may call into one RaritanPDU
Tasks == {"coordinator", "other"}

(***************************************************************************)
(* Python str as sequences of characters.                                  *)
(***************************************************************************)
DigitChars == <<"0", "1", "2", "3", "4", "5", "6", "7", "8", "9">>

IsDigitChar(c) == \E d \in 1..10 : DigitChars[d] = c

DigitVal(c) == (CHOOSE d \in 1..10 : DigitChars[d] = c) - 1

\* str.isdigit(): non-empty and every character a digit
IsDigit(s) == Len(s) > 0 /\ \A i \in 1..Len(s) : IsDigitChar(s[i])

\* str.isdecimal(): on the ASCII text an agent sends, the same characters
IsDecimal(s) == Len(s) > 0 /\ \A i \in 1..Len(s) : IsDigitChar(s[i])

RECURSIVE ToNat(_)
\* int(val) of a digit string
ToNat(s) ==
    IF s = <<>> THEN 0
    ELSE ToNat(SubSeq(s, 1, Len(s) - 1)) * 10 + DigitVal(s[Len(s)])

RECURSIVE Digits(_)
\* str(n) of a non-negative int
Digits(n) ==
    IF n < 10 THEN <<DigitChars[n + 1]>>
    ELSE Digits(n \div 10) \o <<DigitChars[(n % 10) + 1]>>

\* p in s: the text p anywhere in s
StartsWithAnywhere(s, p) ==
    \E i \in 1..Len(s) : i + Len(p) - 1 <= Len(s) /\ SubSeq(s, i, i + Len(p) - 1) = p

\* s.startswith(p)
StartsWith(s, p) == Len(s) >= Len(p) /\ SubSeq(s, 1, Len(p)) = p

\* s.split(sep)[0]: the text before the first occurrence of sep, or all of s
FirstSegment(s, sep) ==
    LET hits == {i \in 1..Len(s) :
                    i + Len(sep) - 1 <= Len(s) /\ SubSeq(s, i, i + Len(sep) - 1) = sep}
    IN  IF hits = {} THEN s
        ELSE SubSeq(s, 1, (CHOOSE i \in hits : \A j \in hits : i <= j) - 1)

(***************************************************************************)
(* Values of the link.                                                     *)
(***************************************************************************)
\* a Python int
IntVal(n) == [t |-> "int", n |-> n, s |-> <<>>]

\* a Python float
FloatVal(n) == [t |-> "float", n |-> n, s |-> <<>>]

\* a Python str
StrVal(s) == [t |-> "str", n |-> 0, s |-> s]

\* str(v)
StrOf(v) == IF v.t = "str" THEN v.s ELSE Digits(v.n)

\* snmp_get, lines 74-80: the typed value of the text an agent returned
ParseVal(val) ==
    IF IsDigit(val) THEN IntVal(ToNat(val))
    ELSE IF IsDecimal(val) THEN FloatVal(ToNat(val))
    ELSE StrVal(val)

(***************************************************************************)
(* Texts of the program.                                                   *)
(***************************************************************************)
\* "Raritan Dominion PX"
Signature ==
    <<"R", "a", "r", "i", "t", "a", "n", " ",
      "D", "o", "m", "i", "n", "i", "o", "n", " ", "P", "X">>

\* " - "
NameSeparator == <<" ", "-", " ">>

\* "Yes"
YesText == <<"Y", "e", "s">>

\* "No"
NoText == <<"N", "o">>

(***************************************************************************)
(* The SNMP agent (the device at the other end of the link).  Every fetch  *)
(* meets the agent in some condition: it answers, the link reports an      *)
(* error (errorIndication, errorStatus), or the link raises.  An agent     *)
(* that answers returns, for every object, text of the object's MIB        *)
(* syntax: digits for the numeric objects, free text for the others.       *)
(***************************************************************************)
\* what the unit says about itself: description, name, CPU temperature in
\* tenths of a degree
Units ==
    { [desc |-> Signature \o <<"2", " ", "-", " ", "3">>,
       sysName |-> <<"p", "d", "u">>, cpu |-> 305],
      [desc |-> <<"O", "t", "h", "e", "r", " ", "V", "e", "n", "d", "o", "r">>,
       sysName |-> <<"u", "p", "s">>, cpu |-> 20] }

\* descriptions the authentication probe may meet: the family signature
\* followed by more text, the signature alone, another vendor, a text that
\* holds the signature but not at its start, a proper prefix of the
\* signature, and a description made of digits
ProbeDescriptions ==
    { Signature \o <<"2", " ", "-", " ", "3">>,
      Signature,
      <<"O", "t", "h", "e", "r", " ", "V", "e", "n", "d", "o", "r">>,
      <<"a", " ">> \o Signature,
      SubSeq(Signature, 1, 7),
      <<"4", "2">> }

\* the load on the unit: 0 is idle; at level l the i-th outlet draws 100 * l * i W
Levels == {0, 1}

\* the link's outcomes
FailStatuses == {"errorIndication", "errorStatus", "raise"}

AnyUnit == CHOOSE u \in Units : TRUE

\* an agent that does not answer
FailedAgents ==
    { [status |-> st, desc |-> <<>>, sysName |-> <<>>, cpu |-> 0, flag |-> NoText,
       count |-> 0, level |-> 0] : st \in FailStatuses }

\* the agents a discovery read may meet
DiscoveryAgents ==
    FailedAgents \cup
    { [status |-> "ok", desc |-> u.desc, sysName |-> u.sysName, cpu |-> u.cpu,
       flag |-> f, count |-> c, level |-> 0] :
         u \in Units, f \in {YesText, NoText}, c \in 0..MaxOutlets }

\* the agents a sensor read may meet
SensorAgents ==
    FailedAgents \cup
    { [status |-> "ok", desc |-> AnyUnit.desc, sysName |-> AnyUnit.sysName,
       cpu |-> AnyUnit.cpu, flag |-> NoText, count |-> 0, level |-> l] :
         l \in Levels }

\* the agents the authentication probe may meet
ProbeAgents ==
    FailedAgents \cup
    { [status |-> "ok", desc |-> d, sysName |-> <<>>, cpu |-> 0, flag |-> NoText,
       count |-> 0, level |-> 0] : d \in ProbeDescriptions }

\* the text the agent returns for one object identifier <<mib, object, instance>>
AgentText(agent, oid) ==
    LET i == oid[3]
        l == agent.level
    IN  CASE oid[2] = "sysDescr" -> agent.desc
          [] oid[2] = "sysName" -> agent.sysName
          [] oid[2] = "outletEnergySupport" -> agent.flag
          [] oid[2] = "outletCount" -> Digits(agent.count)
          [] oid[2] = "unitCpuTemp" -> Digits(agent.cpu)
          [] oid[2] = "outletLabel" -> <<"o", "u", "t">> \o Digits(i)
          [] oid[2] = "outletCurrent" -> Digits(1000 * i + 500 * l)
          [] oid[2] = "outletVoltage" -> Digits(120000 + 10 * i + l)
          [] oid[2] = "outletActivePower" -> Digits(100 * l * i)
          [] oid[2] = "outletPowerFactor" -> Digits(90 + 2 * i + l)
          [] oid[2] = "outletWattHours" -> Digits(5000 + 10 * i + l)
          [] OTHER -> <<"?">>

(***************************************************************************)
(* SNMPManager.snmp_get                                                    *)
(***************************************************************************)
\* what snmp_get returns: None, one value, or a list of values
NoneResult == [kind |-> "none", v |-> IntVal(0), l |-> <<>>]
ScalarResult(v) == [kind |-> "scalar", v |-> v, l |-> <<>>]
ListResult(l) == [kind |-> "list", v |-> IntVal(0), l |-> l]

\* r is None
IsNone(r) == r.kind = "none"

\* how a fetch ends for its caller: "ok" with values, "none" (snmp_get
\* returns None) or "raise"
LinkOutcome(agent) ==
    IF agent.status = "ok" THEN "ok"
    ELSE IF agent.status = "raise" THEN "raise" ELSE "none"

\* the awaited get_cmd raises instead of returning
LinkRaises(agent) == agent.status = "raise"

\* snmp_get(*oids) when get_cmd returns
snmp_get(oids, agent) ==
    IF agent.status = "errorIndication" THEN NoneResult
    ELSE IF agent.status = "errorStatus" THEN NoneResult
    ELSE LET results == [k \in 1..Len(oids) |-> ParseVal(AgentText(agent, oids[k]))]
         IN  IF Len(results) = 1 THEN ScalarResult(results[1])
             ELSE ListResult(results)

(***************************************************************************)
(* RaritanPDUOutlet                                                        *)
(***************************************************************************)
\* the denominator of the stored energies: 1 watt-hour is UnitsPerWh units
UnitsPerWh == 3600

\* a constructor that adds "watt_hours" whatever the flag
SensorKeysEnergyAlways(energy_support) ==
    <<"label", "current", "voltage", "active_power", "power_factor", "watt_hours">>

\* the keys of sensor_data in insertion order
SensorKeys(energy_support) ==
    <<"label", "current", "voltage", "active_power", "power_factor">>
        \o (IF energy_support THEN <<"watt_hours">> ELSE <<>>)

\* RaritanPDUOutlet(snmp_manager, index, energy_support); obj tells the
\* object from the outlets built before it
NewOutlet(index, energy_support, obj) ==
    LET keys == SensorKeys(energy_support)
    IN  [ index |-> index,
          energy_support |-> energy_support,
          keys |-> keys,
          sensor_data |-> [k \in {keys[j] : j \in 1..Len(keys)} |->
                              IF k = "label" THEN StrVal(<<>>) ELSE IntVal(0)],
          last_sensor_data_update_timestamp |-> 0,
          initial_energy_delivered |-> 0,
          energy_delivered |-> 0,
          obj |-> obj ]

\* initialize_energy_delivered(initial_value)
initialize_energy_delivered(o, initial_value) ==
    [o EXCEPT !.initial_energy_delivered = initial_value]

\* a division by 60 only: minutes taken for hours
time_diff_minutes(time_diff_seconds) ==
    (time_diff_seconds * UnitsPerWh) \div 60

\* line 80: time_diff_seconds / (60.0 * 60.0), in 1/UnitsPerWh hours
time_diff_hours(time_diff_seconds) ==
    (time_diff_seconds * UnitsPerWh) \div (60 * 60)

\* line 81: active_power * time_diff_hours, in 1/UnitsPerWh watt-hours
new_energy_delivered(active_power, time_diff_seconds) ==
    active_power * time_diff_hours(time_diff_seconds)

\* an integration that stores the increment instead of adding it
update_energy_delivered_overwrite(o, current) ==
    IF o.last_sensor_data_update_timestamp = 0 THEN o
    ELSE LET time_diff_seconds == current - o.last_sensor_data_update_timestamp
         IN  IF time_diff_seconds < 0 THEN o
             ELSE [o EXCEPT !.energy_delivered =
                      new_energy_delivered(o.sensor_data["active_power"].n,
                                           time_diff_seconds)]

\* an integration without the test of line 77
update_energy_delivered_unguarded(o, current) ==
    IF o.last_sensor_data_update_timestamp = 0 THEN o
    ELSE LET time_diff_seconds == current - o.last_sensor_data_update_timestamp
         IN  [o EXCEPT !.energy_delivered =
                 @ + new_energy_delivered(o.sensor_data["active_power"].n,
                                          time_diff_seconds)]

\* update_energy_delivered(current_sensor_data_update_timestamp)
update_energy_delivered(o, current) ==
    IF o.last_sensor_data_update_timestamp = 0 THEN o
    ELSE LET time_diff_seconds == current - o.last_sensor_data_update_timestamp
         IN  IF time_diff_seconds < 0 THEN o
             ELSE [o EXCEPT !.energy_delivered =
                      @ + new_energy_delivered(o.sensor_data["active_power"].n,
                                               time_diff_seconds)]

\* update_last_sensor_data_update_timestamp(current_sensor_data_update_timestamp)
update_last_sensor_data_update_timestamp(o, current) ==
    [o EXCEPT !.last_sensor_data_update_timestamp = current]

\* a dict handed out as it is: the same object
SameDict(d) == [items |-> d, shared |-> TRUE]

\* dict.copy(): another dict object with the same items
DictCopy(d) == [items |-> d, shared |-> FALSE]

\* a get_data that reports the energy of this session only
outlet_get_data_session_only(o) ==
    LET data == DictCopy(o.sensor_data)
    IN  [sensor_data |-> data.items,
         shared |-> data.shared,
         energy_delivered |-> o.energy_delivered]

\* get_data(): data is a copy of sensor_data, and data["energy_delivered"]
\* the reported energy; shared tells whether writing to data writes to the
\* outlet's sensor_data
outlet_get_data(o) ==
    LET data == DictCopy(o.sensor_data)
    IN  [sensor_data |-> data.items,
         shared |-> data.shared,
         energy_delivered |-> o.energy_delivered + o.initial_energy_delivered]

(***************************************************************************)
(* RaritanPDU                                                              *)
(***************************************************************************)
VARIABLES
    name,                \* self.name
    energy_support,      \* self.energy_support
    outlet_count,        \* self.outlet_count
    cpu_temperature,     \* self.cpu_temperature
    outlets,             \* self.outlets
    pc,                  \* where each task stands in update_data
    result,              \* the local result of each task's call
    oids,                \* the local oids of update_data
    results,             \* the local results of update_data
    current_update_time, \* the local current_update_time of update_data
    op,                  \* the method each task called last
    ret,                 \* how each task's last call ended
    fetches,             \* the link outcomes of each task's last call, in order
    pre,                 \* the device when each task's last update_data began
    calls,               \* the number of update_data calls so far
    data,                \* what get_data() returned to its caller
    requests,            \* the requests each task's last call sent, in order
    gap,                 \* the time since update_data last completed
    alone                \* whether each task's call ran without another in flight

vars ==
    <<name, energy_support, outlet_count, cpu_temperature, outlets, pc, result,
      oids, results, current_update_time, op, ret, fetches, pre, calls,
      data, requests, gap, alone>>

\* what a specification records next to the calls
readVars == <<data>>
historyVars == <<requests, gap>>
overlapVars == <<alone>>

\* the fields of the RaritanPDU object
Device ==
    [name |-> name, energy_support |-> energy_support, outlet_count |-> outlet_count,
     cpu_temperature |-> cpu_temperature, outlets |-> outlets]

deviceVars == <<name, energy_support, outlet_count, cpu_temperature, outlets>>

\* the values time.time() may return: the clock is a wall clock and may step back
Times == {k * (60 * 60) : k \in 1..MaxTicks}

\* the values the platform restores as a previous session's energy
Seeds == {500 * UnitsPerWh}

\* the request of authenticate
ProbeOids == << <<"SNMPv2-MIB", "sysDescr", 0>> >>

\* the five requests of update_data's first read
DiscoveryOids ==
    << <<"SNMPv2-MIB", "sysDescr", 0>>,
       <<"SNMPv2-MIB", "sysName", 0>>,
       <<"PDU-MIB", "outletEnergySupport", 0>>,
       <<"PDU-MIB", "outletCount", 0>>,
       <<"PDU-MIB", "unitCpuTemp", 0>> >>

\* f"outlet{data_name.title().replace('_', '')}" on the six keys of sensor_data
MibObjectName(data_name) ==
    CASE data_name = "label" -> "outletLabel"
      [] data_name = "current" -> "outletCurrent"
      [] data_name = "voltage" -> "outletVoltage"
      [] data_name = "active_power" -> "outletActivePower"
      [] data_name = "power_factor" -> "outletPowerFactor"
      [] data_name = "watt_hours" -> "outletWattHours"

\* str(desc).split(" - ")[0] + " " + str(name)
DeviceName(desc, sysName) ==
    FirstSegment(StrOf(desc), NameSeparator) \o <<" ">> \o StrOf(sysName)

\* energy_support == "Yes"
EnergySupported(flag) == flag = StrVal(YesText)

\* cpu_temperature / 10.0
CpuTemperature(raw) == [num |-> raw.n, den |-> 10]

\* a mark for outlets built now, which none of the outlets in outs bears
FreshMark(outs) == IF outs = <<>> THEN 0 ELSE 1 - outs[1].obj

\* a first read that builds the outlets anew whatever the count
ReconcileOutletsAlways(outs, old_count, new_count, support) ==
    [i \in 1..new_count |-> NewOutlet(i, support, FreshMark(outs))]

\* a first read without line 142: the new outlets are appended to the old
ReconcileOutletsAppend(outs, old_count, new_count, support) ==
    IF new_count # old_count
    THEN outs \o [i \in 1..new_count |-> NewOutlet(i, support, FreshMark(outs))]
    ELSE outs

\* a first read that also builds the outlets anew when the flag it found is
\* not the one the outlets were built with
ReconcileOutletsOnFlag(outs, old_count, new_count, support) ==
    IF new_count # old_count \/ (outs # <<>> /\ outs[1].energy_support # support)
    THEN [i \in 1..new_count |-> NewOutlet(i, support, FreshMark(outs))]
    ELSE outs

\* lines 140-146: the outlet list after the first read
ReconcileOutlets(outs, old_count, new_count, support) ==
    IF new_count # old_count
    THEN [i \in 1..new_count |-> NewOutlet(i, support, FreshMark(outs))]
    ELSE outs

\* a first read that assigns energy_support on the first discovery only
discovered_flag_once(dev, r) ==
    LET desc == r.l[1]
        sysName == r.l[2]
        flag == r.l[3]
        count == r.l[4].n
        cpu == r.l[5]
        support == IF dev.name = <<>> THEN EnergySupported(flag) ELSE dev.energy_support
    IN  [name |-> DeviceName(desc, sysName),
         energy_support |-> support,
         outlet_count |-> count,
         cpu_temperature |-> CpuTemperature(cpu),
         outlets |-> ReconcileOutlets(dev.outlets, dev.outlet_count, count, support)]

\* lines 133-146: the device after the first read returned the five values of r
discovered(dev, r) ==
    LET desc == r.l[1]
        sysName == r.l[2]
        flag == r.l[3]
        count == r.l[4].n
        cpu == r.l[5]
    IN  [name |-> DeviceName(desc, sysName),
         energy_support |-> EnergySupported(flag),
         outlet_count |-> count,
         cpu_temperature |-> CpuTemperature(cpu),
         outlets |-> ReconcileOutlets(dev.outlets, dev.outlet_count, count,
                                      EnergySupported(flag))]

\* a first read that forgets the outlets when the link fails
discover_forgetful(dev, r) ==
    IF IsNone(r) THEN [dev EXCEPT !.outlet_count = 0, !.outlets = <<>>]
    ELSE discovered(dev, r)

\* lines 130-146: the device after the first read returned r
discover(dev, r) ==
    IF IsNone(r) THEN dev
    ELSE discovered(dev, r)

\* the requests of one outlet, in the order of its keys
OutletOids(o) ==
    [p \in 1..Len(o.keys) |-> <<"PDU-MIB", MibObjectName(o.keys[p]), o.index>>]

\* a request list that puts each outlet's requests before those of the
\* outlets already listed
BuildOidsReversed(outs) ==
    LET F == IF outs = <<>> THEN 0 ELSE Len(outs[1].keys)
    IN  [k \in 1..(Len(outs) * F) |->
            OutletOids(outs[Len(outs) - ((k - 1) \div F)])[((k - 1) % F) + 1]]

RECURSIVE BuildOids(_)
\* lines 149-153: the requests of all outlets, outlet by outlet
BuildOids(outs) ==
    IF outs = <<>> THEN <<>>
    ELSE BuildOids(SubSeq(outs, 1, Len(outs) - 1)) \o OutletOids(outs[Len(outs)])

\* what can be subscripted in results: None has no items
ResultItems(r) == IF r.kind = "list" THEN r.l ELSE <<>>

\* an index that starts again at 0 for every outlet
FieldsBeforeReset(outs, j) == 0

RECURSIVE FieldsBefore(_, _)
\* the value of i when the loop of line 163 reaches the j-th outlet
FieldsBefore(outs, j) ==
    IF j <= 1 THEN 0
    ELSE FieldsBefore(outs, j - 1) + Len(outs[j - 1].keys)

\* the position of a key in the outlet's keys
KeyPosition(o, k) == CHOOSE p \in 1..Len(o.keys) : o.keys[p] = k

\* lines 164-167 on one outlet, as far as results[i] exists
StoreFields(o, items, i) ==
    [o EXCEPT !.sensor_data =
        [k \in DOMAIN o.sensor_data |->
            IF i + KeyPosition(o, k) <= Len(items)
            THEN items[i + KeyPosition(o, k)]
            ELSE o.sensor_data[k]]]

\* an update that stores the timestamp before it integrates
UpdateOutletStampFirst(o, items, i, now) ==
    update_energy_delivered(
        update_last_sensor_data_update_timestamp(StoreFields(o, items, i), now), now)

\* lines 164-171 on one outlet that results cover
UpdateOutlet(o, items, i, now) ==
    update_last_sensor_data_update_timestamp(
        update_energy_delivered(StoreFields(o, items, i), now), now)

\* a loop that skips a missing results[i] instead of raising
FirstShortSkipped(outs, items) == Len(outs) + 1

\* the first outlet for which results[i] fails, Len(outs) + 1 if there is none
FirstShort(outs, items) ==
    LET short == {j \in 1..Len(outs) :
                     FieldsBefore(outs, j) + Len(outs[j].keys) > Len(items)}
    IN  IF short = {} THEN Len(outs) + 1
        ELSE CHOOSE j \in short : \A m \in short : j <= m

\* results[i] raises (TypeError on None, IndexError past the end)
DistributionRaises(outs, r) == FirstShort(outs, ResultItems(r)) <= Len(outs)

\* a second round that stamps every outlet with the time it read, also the
\* outlets the response does not reach
DistributeStampsAll(outs, r, now) ==
    LET items == ResultItems(r)
        f == FirstShort(outs, items)
    IN  [j \in 1..Len(outs) |->
            IF j < f THEN UpdateOutlet(outs[j], items, FieldsBefore(outs, j), now)
            ELSE update_last_sensor_data_update_timestamp(outs[j], now)]

\* lines 162-171: the outlets when the loop ends or raises
Distribute(outs, r, now) ==
    LET items == ResultItems(r)
        f == FirstShort(outs, items)
    IN  [j \in 1..Len(outs) |->
            IF j < f THEN UpdateOutlet(outs[j], items, FieldsBefore(outs, j), now)
            ELSE IF j = f THEN StoreFields(outs[j], items, FieldsBefore(outs, j))
            ELSE outs[j]]

\* authenticate(): "true", "false"; the except clause turns a raise into False
authenticate_outcome(agent) ==
    IF LinkRaises(agent) THEN "false"
    ELSE LET r == snmp_get(ProbeOids, agent)
         IN  IF IsNone(r) THEN "false"
             ELSE IF StartsWith(StrOf(r.v), Signature) THEN "true" ELSE "false"

\* self.outlets[index], without the shift to the list's numbering from 0; past
\* the end it is taken round to the first outlet
get_outlet_by_index_unshifted(outs, index) ==
    outs[IF index < Len(outs) THEN index + 1 ELSE 1]

\* get_outlet_by_index(index): self.outlets[index - 1] of a list numbered
\* from 0 is the index-th element
get_outlet_by_index(outs, index) == outs[index]

\* get_data()
get_data ==
    [by_outlet |-> [j \in 1..Len(outlets) |->
                       [key |-> outlets[j].index, data |-> outlet_get_data(outlets[j])]],
     cpu_temperature |-> cpu_temperature]

(***************************************************************************)
(* The state after RaritanPDU(host, port, community)                       *)
(***************************************************************************)
\* no get_data() yet: count is the number of get_data() calls since the
\* device last changed (2 stands for two or more), first what the first of
\* them returned, last what the latest returned as its caller now holds it,
\* tampered whether the caller wrote to it
NoData ==
    [count |-> 0,
     first |-> [by_outlet |-> <<>>, cpu_temperature |-> [num |-> 0, den |-> 1]],
     last |-> [by_outlet |-> <<>>, cpu_temperature |-> [num |-> 0, den |-> 1]],
     tampered |-> FALSE]

\* no update_data has completed: t0 is the time the last completed
\* update_data read (0 for none), count the outlets it updated, failed
\* whether a call failed since, steady whether every first read since found
\* the outlet count of t0, and bridged whether calls had failed before the
\* completion at t0
NoGap == [t0 |-> 0, count |-> 0, failed |-> FALSE, steady |-> TRUE, bridged |-> FALSE]

NoDevice ==
    [name |-> <<>>, energy_support |-> FALSE, outlet_count |-> 0,
     cpu_temperature |-> [num |-> 0, den |-> 1], outlets |-> <<>>]

Init ==
    /\ name = <<>>
    /\ energy_support = FALSE
    /\ outlet_count = 0
    /\ cpu_temperature = [num |-> 0, den |-> 1]
    /\ outlets = <<>>
    /\ pc = [t \in Tasks |-> "idle"]
    /\ result = [t \in Tasks |-> NoneResult]
    /\ oids = [t \in Tasks |-> <<>>]
    /\ results = [t \in Tasks |-> NoneResult]
    /\ current_update_time = [t \in Tasks |-> 0]
    /\ op = [t \in Tasks |-> "none"]
    /\ ret = [t \in Tasks |-> "none"]
    /\ fetches = [t \in Tasks |-> <<>>]
    /\ pre = [t \in Tasks |-> NoDevice]
    /\ calls = 0
    /\ data = NoData
    /\ requests = [t \in Tasks |-> <<>>]
    /\ gap = NoGap
    /\ alone = [t \in Tasks |-> TRUE]

\* no call is in flight
AllIdle == \A t \in Tasks : pc[t] = "idle"

(***************************************************************************)
(* update_data, lines 119-122: the call, up to the first await             *)
(***************************************************************************)
update_data_call(t) ==
    /\ pc[t] = "idle"
    /\ calls < MaxCalls
    /\ pc' = [pc EXCEPT ![t] = "round1"]
    /\ result' = [result EXCEPT ![t] = NoneResult]
    /\ oids' = [oids EXCEPT ![t] = <<>>]
    /\ results' = [results EXCEPT ![t] = NoneResult]
    /\ current_update_time' = [current_update_time EXCEPT ![t] = 0]
    /\ op' = [op EXCEPT ![t] = "update_data"]
    /\ ret' = [ret EXCEPT ![t] = "none"]
    /\ fetches' = [fetches EXCEPT ![t] = <<>>]
    /\ pre' = [pre EXCEPT ![t] = Device]
    /\ calls' = calls + 1
    /\ UNCHANGED deviceVars

\* the call ends: its locals result and oids are gone, and so is the record
\* of the device it began with
Return(t) ==
    /\ result' = [result EXCEPT ![t] = NoneResult]
    /\ oids' = [oids EXCEPT ![t] = <<>>]
    /\ pre' = [pre EXCEPT ![t] = NoDevice]

(***************************************************************************)
(* update_data, lines 122-156: the first read returns, up to the second    *)
(* await                                                                   *)
(***************************************************************************)
update_data_round1(t, agent) ==
    /\ pc[t] = "round1"
    /\ fetches' = [fetches EXCEPT ![t] = Append(@, LinkOutcome(agent))]
    /\ UNCHANGED <<results, current_update_time, op, calls>>
    /\ IF LinkRaises(agent)
       THEN /\ pc' = [pc EXCEPT ![t] = "idle"]
            /\ ret' = [ret EXCEPT ![t] = "raised"]
            /\ Return(t)
            /\ UNCHANGED deviceVars
       ELSE LET r == snmp_get(DiscoveryOids, agent)
                d == discover(Device, r)
            IN  /\ name' = d.name
                /\ energy_support' = d.energy_support
                /\ outlet_count' = d.outlet_count
                /\ cpu_temperature' = d.cpu_temperature
                /\ outlets' = d.outlets
                /\ IF IsNone(r)
                   THEN /\ pc' = [pc EXCEPT ![t] = "idle"]
                        /\ ret' = [ret EXCEPT ![t] = "returned"]
                        /\ Return(t)
                   ELSE /\ result' = [result EXCEPT ![t] = r]
                        /\ oids' = [oids EXCEPT ![t] = BuildOids(d.outlets)]
                        /\ pc' = [pc EXCEPT ![t] = "round2"]
                        /\ UNCHANGED <<ret, pre>>

(***************************************************************************)
(* update_data, lines 156-171: the second read returns, to the end         *)
(***************************************************************************)
\* line 158: the test that ends the call after the second read
SecondReadAborts(first, second) == IsNone(first)

update_data_round2(t, agent, now) ==
    /\ pc[t] = "round2"
    /\ fetches' = [fetches EXCEPT ![t] = Append(@, LinkOutcome(agent))]
    /\ pc' = [pc EXCEPT ![t] = "idle"]
    /\ UNCHANGED <<name, energy_support, outlet_count, cpu_temperature, op, calls>>
    /\ Return(t)
    /\ IF LinkRaises(agent)
       THEN /\ ret' = [ret EXCEPT ![t] = "raised"]
            /\ UNCHANGED <<outlets, results, current_update_time>>
       ELSE LET r == snmp_get(oids[t], agent)
            IN  /\ results' = [results EXCEPT ![t] = r]
                /\ current_update_time' = [current_update_time EXCEPT ![t] = now]
                /\ IF SecondReadAborts(result[t], r)
                   THEN /\ ret' = [ret EXCEPT ![t] = "returned"]
                        /\ UNCHANGED outlets
                   ELSE /\ outlets' = Distribute(outlets, r, now)
                        /\ ret' = [ret EXCEPT ![t] =
                                     IF DistributionRaises(outlets, r)
                                     THEN "raised" ELSE "returned"]

(***************************************************************************)
(* authenticate, lines 109-117                                             *)
(***************************************************************************)
authenticate(t, agent) ==
    /\ pc[t] = "idle"
    /\ fetches' = [fetches EXCEPT ![t] = <<LinkOutcome(agent)>>]
    /\ result' = [result EXCEPT ![t] =
                    IF LinkRaises(agent) THEN NoneResult ELSE snmp_get(ProbeOids, agent)]
    /\ op' = [op EXCEPT ![t] = "authenticate"]
    /\ ret' = [ret EXCEPT ![t] = authenticate_outcome(agent)]
    /\ UNCHANGED <<deviceVars, pc, oids, results, current_update_time, pre, calls>>

(***************************************************************************)
(* get_outlet_by_index(index).initialize_energy_delivered(initial_value),  *)
(* lines 67-69, for an index the caller may pass                           *)
(***************************************************************************)
initialize(index, initial_value) ==
    /\ index \in 1..Len(outlets)
    /\ outlets[index].initial_energy_delivered # initial_value
    /\ outlets' = [outlets EXCEPT ![index] =
                      initialize_energy_delivered(get_outlet_by_index(outlets, index),
                                                  initial_value)]
    /\ UNCHANGED <<name, energy_support, outlet_count, cpu_temperature, pc,
                   result, oids, results, current_update_time, op, ret, fetches, pre,
                   calls>>

(***************************************************************************)
(* One caller at a time: the platform's coordinator awaits every call      *)
(* before it makes the next.                                               *)
(***************************************************************************)
Caller == "coordinator"

Call ==
    /\ AllIdle /\ update_data_call(Caller)
    /\ UNCHANGED <<readVars, historyVars, overlapVars>>

FirstRead ==
    /\ \E agent \in DiscoveryAgents : update_data_round1(Caller, agent)
    /\ UNCHANGED <<readVars, historyVars, overlapVars>>

SecondRead ==
    /\ \E agent \in SensorAgents, now \in Times : update_data_round2(Caller, agent, now)
    /\ UNCHANGED <<readVars, historyVars, overlapVars>>

Probe ==
    /\ AllIdle /\ \E agent \in ProbeAgents : authenticate(Caller, agent)
    /\ UNCHANGED <<readVars, historyVars, overlapVars>>

Seed ==
    /\ AllIdle /\ \E i \in 1..MaxOutlets, v \in Seeds : initialize(i, v)
    /\ UNCHANGED <<readVars, historyVars, overlapVars>>

Next == Call \/ FirstRead \/ SecondRead \/ Probe \/ Seed

Spec == Init /\ [][Next]_vars

(***************************************************************************)
(* The callers of get_data().  The platform reads the device after a       *)
(* refresh and hands the dict to its entities; a dict read from an older   *)
(* device is dropped when the device is written.                           *)
(***************************************************************************)
\* the fields a holder of the returned dict writes to, and what it writes
TamperKeys == {"active_power", "label"}
TamperValues == {IntVal(777)}

\* data = get_data(), lines 176-184
GetData ==
    /\ AllIdle
    /\ data.count < 2 \/ data.tampered
    /\ data' = [count |-> IF data.count < 2 THEN data.count + 1 ELSE data.count,
                first |-> IF data.count = 0 THEN get_data ELSE data.first,
                last |-> get_data,
                tampered |-> FALSE]
    /\ UNCHANGED <<deviceVars, pc, result, oids, results, current_update_time, op, ret,
                   fetches, pre, calls, historyVars, overlapVars>>

\* data[index][key] = value, by the caller that holds data; the write reaches
\* the outlet when data[index] is the outlet's own sensor_data
Tamper ==
    /\ AllIdle
    /\ data.count >= 1 /\ ~data.tampered
    /\ \E j \in 1..Len(data.last.by_outlet), key \in TamperKeys, value \in TamperValues :
          LET held == data.last.by_outlet[j]
          IN  /\ data' = [data EXCEPT !.last.by_outlet[j].data.sensor_data[key] = value,
                                      !.tampered = TRUE]
              /\ outlets' = IF held.data.shared
                            THEN [outlets EXCEPT ![held.key].sensor_data[key] = value]
                            ELSE outlets
    /\ UNCHANGED <<name, energy_support, outlet_count, cpu_temperature, pc, result, oids,
                   results, current_update_time, op, ret, fetches, pre, calls,
                   historyVars, overlapVars>>

ReadCall ==
    /\ AllIdle /\ update_data_call(Caller)
    /\ data' = NoData
    /\ UNCHANGED <<historyVars, overlapVars>>

ReadFirstRead ==
    /\ \E agent \in DiscoveryAgents : update_data_round1(Caller, agent)
    /\ UNCHANGED <<readVars, historyVars, overlapVars>>

ReadSecondRead ==
    /\ \E agent \in SensorAgents, now \in Times : update_data_round2(Caller, agent, now)
    /\ UNCHANGED <<readVars, historyVars, overlapVars>>

ReadSeed ==
    /\ AllIdle /\ \E i \in 1..MaxOutlets, v \in Seeds : initialize(i, v)
    /\ data' = NoData
    /\ UNCHANGED <<historyVars, overlapVars>>

NextRead == ReadCall \/ ReadFirstRead \/ ReadSecondRead \/ ReadSeed \/ GetData \/ Tamper

SpecRead == Init /\ [][NextRead]_vars

(***************************************************************************)
(* The serialized calls with their history: the requests a call hands to   *)
(* the link, and the time of the last update_data that completed (both     *)
(* reads answered, the response distributed to the end).                   *)
(***************************************************************************)
\* the history after the first read of a call ended
gap_round1(ended, rebuilt) ==
    [gap EXCEPT !.failed = @ \/ ended, !.steady = @ /\ ~rebuilt]

\* the history after the second read of a call ended
gap_round2(completed, now) ==
    IF completed
    THEN [t0 |-> now, count |-> outlet_count, failed |-> FALSE, steady |-> TRUE,
          bridged |-> gap.failed]
    ELSE [gap EXCEPT !.failed = TRUE]

HistoryCall ==
    /\ AllIdle /\ update_data_call(Caller)
    /\ requests' = [requests EXCEPT ![Caller] = <<DiscoveryOids>>]
    /\ UNCHANGED <<gap, readVars, overlapVars>>

HistoryFirstRead ==
    /\ \E agent \in DiscoveryAgents : update_data_round1(Caller, agent)
    /\ requests' = [requests EXCEPT ![Caller] =
                       IF pc'[Caller] = "round2" THEN Append(@, oids'[Caller]) ELSE @]
    /\ gap' = gap_round1(pc'[Caller] = "idle", outlet_count' # outlet_count)
    /\ UNCHANGED <<readVars, overlapVars>>

HistorySecondRead ==
    /\ \E agent \in SensorAgents, now \in Times : update_data_round2(Caller, agent, now)
    /\ gap' = gap_round2(fetches'[Caller] = <<"ok", "ok">> /\ ret'[Caller] = "returned",
                         current_update_time'[Caller])
    /\ UNCHANGED <<requests, readVars, overlapVars>>

NextHistory == HistoryCall \/ HistoryFirstRead \/ HistorySecondRead

SpecHistory == Init /\ [][NextHistory]_vars

(***************************************************************************)
(* Two callers of one device: a task calls update_data whenever its own    *)
(* previous call has ended, whatever the other task is doing.  The awaits  *)
(* of lines 122 and 156 are where the event loop runs the other task.      *)
(***************************************************************************)
\* a record that forgets the calls in flight when another begins
alone_call_unmarked(t) == [alone EXCEPT ![t] = TRUE]

\* task t begins update_data: its call is alone if no call is in flight, and
\* a call in flight is no longer alone
alone_call(t) ==
    [u \in Tasks |->
        IF u = t THEN AllIdle
        ELSE IF pc[u] # "idle" THEN FALSE ELSE alone[u]]

\* the agents the two callers meet: one unit, which answers or does not
OverlapDiscoveryAgents ==
    {a \in DiscoveryAgents :
        \/ a.status = "errorIndication"
        \/ a.status = "ok" /\ a.desc = AnyUnit.desc}

\* under load, or not answering
OverlapSensorAgents ==
    {a \in SensorAgents :
        \/ a.status = "errorIndication"
        \/ a.status = "ok" /\ a.level = 1}

OverlapCall ==
    /\ \E t \in Tasks :
          /\ update_data_call(t)
          /\ alone' = alone_call(t)
          /\ requests' = [requests EXCEPT ![t] = <<DiscoveryOids>>]
    /\ UNCHANGED <<gap, readVars>>

OverlapFirstRead ==
    /\ \E t \in Tasks, agent \in OverlapDiscoveryAgents :
          /\ update_data_round1(t, agent)
          /\ requests' = [requests EXCEPT ![t] =
                             IF pc'[t] = "round2" THEN Append(@, oids'[t]) ELSE @]
    /\ UNCHANGED <<gap, readVars, overlapVars>>

OverlapSecondRead ==
    /\ \E t \in Tasks, agent \in OverlapSensorAgents, now \in Times :
          update_data_round2(t, agent, now)
    /\ UNCHANGED <<requests, gap, readVars, overlapVars>>

NextOverlap == OverlapCall \/ OverlapFirstRead \/ OverlapSecondRead

SpecOverlap == Init /\ [][NextOverlap]_vars

(***************************************************************************)
(* Steps of update_data, for the properties below                          *)
(***************************************************************************)
\* the step in which task t's first read ends
FirstReadStep(t) == pc[t] = "round1" /\ pc'[t] # "round1"

\* the step in which task t's second read ends
SecondReadStep(t) == pc[t] = "round2" /\ pc'[t] = "idle"

\* task t's last call was an update_data that has ended
Refreshed(t) == op[t] = "update_data" /\ pc[t] = "idle"

\* an outlet as the constructor leaves it
IsFreshOutlet(o, index, support) ==
    /\ o.index = index
    /\ o.energy_support = support
    /\ o.energy_delivered = 0
    /\ o.initial_energy_delivered = 0
    /\ o.last_sensor_data_update_timestamp = 0
    /\ \A k \in DOMAIN o.sensor_data :
          o.sensor_data[k] = IF k = "label" THEN StrVal(<<>>) ELSE IntVal(0)

(***************************************************************************)
(* C1.  In the second round of update_data, a device with N outlets of F   *)
(* fields each builds exactly N * F requests, ordered by outlet and then   *)
(* by the outlet's key order; when the link returns as many values in the  *)
(* same order, the k-th value is stored in the (outlet, field) pair that   *)
(* made the k-th request.                                                  *)
(***************************************************************************)
C1_RoundTrip ==
    [][\A t \in Tasks :
          ( /\ SecondReadStep(t)
            /\ fetches'[t] = <<"ok", "ok">>
            /\ results'[t].kind = "list"
            /\ Len(results'[t].l) = Len(oids[t]) )
          => LET N == Len(outlets)
                 F == IF N = 0 THEN 0 ELSE Len(outlets[1].keys)
             IN  /\ \A j \in 1..N : Len(outlets[j].keys) = F
                 /\ Len(oids[t]) = N * F
                 /\ Len(outlets') = N
                 /\ \A j \in 1..N : \A p \in 1..F :
                       LET k == (j - 1) * F + p
                           key == outlets[j].keys[p]
                       IN  /\ oids[t][k] = <<"PDU-MIB", MibObjectName(key), outlets[j].index>>
                           /\ outlets'[j].sensor_data[key] = results'[t].l[k]
      ]_vars

\* a refresh of two outlets has stored the last value of the response in the
\* last field of the second outlet
C1_Witness ==
    \E t \in Tasks :
        /\ Refreshed(t) /\ ret[t] = "returned" /\ fetches[t] = <<"ok", "ok">>
        /\ Len(outlets) = 2
        /\ results[t].kind = "list"
        /\ Len(results[t].l) = 2 * Len(outlets[2].keys)
        /\ outlets[2].sensor_data["power_factor"] = results[t].l[Len(outlets[1].keys) + 5]
        /\ outlets[2].sensor_data["power_factor"] # outlets[1].sensor_data["power_factor"]

(***************************************************************************)
(* C2.  As claimed: if the second read of update_data fails, the device    *)
(* (name, energy_support, outlet_count, cpu_temperature, the outlet list   *)
(* and every outlet's fields, energies and timestamp) is as it was when    *)
(* the call began.                                                         *)
(***************************************************************************)
C2_Original ==
    [][\A t \in Tasks :
          (SecondReadStep(t) /\ fetches'[t][2] # "ok") => Device' = pre[t]
      ]_vars

(***************************************************************************)
(* C2, amended.  If the second read of update_data fails, the second round *)
(* changes nothing: the device and every outlet stay as the first round    *)
(* left them.  The outlets are those of before the call when the first     *)
(* round found the same outlet count, and outlet_count new outlets in the  *)
(* constructor's state otherwise.                                          *)
(***************************************************************************)
C2_SecondRoundFailure ==
    [][\A t \in Tasks :
          (SecondReadStep(t) /\ fetches'[t][2] # "ok")
          => /\ Device' = Device
             /\ IF outlet_count' = pre[t].outlet_count
                THEN outlets' = pre[t].outlets
                ELSE /\ Len(outlets') = outlet_count'
                     /\ \A i \in 1..Len(outlets') :
                           IsFreshOutlet(outlets'[i], i, energy_support')
      ]_vars

\* the second read of a refresh failed on a device whose first outlet had
\* accumulated energy
C2_Witness ==
    \E t \in Tasks :
        /\ Refreshed(t) /\ fetches[t] = <<"ok", "none">>
        /\ Len(outlets) = 2
        /\ outlets[1].energy_delivered > 0

(***************************************************************************)
(* C3.  As claimed: an update_data in which the link reported a failure    *)
(* (snmp_get returned None), in the first or the second round, with or     *)
(* without outlets, ends by returning, never by raising.                   *)
(***************************************************************************)
C3_FailureNeverRaises ==
    \A t \in Tasks :
        ( /\ Refreshed(t)
          /\ \E k \in 1..Len(fetches[t]) : fetches[t][k] = "none" )
        => ret[t] = "returned"

(***************************************************************************)
(* C4.  If the first read of update_data fails, the call ends there: the   *)
(* second read is not issued, and the device, the outlet list and every    *)
(* outlet are as they were when the call began.                            *)
(***************************************************************************)
C4_FirstRoundFailure ==
    [][\A t \in Tasks :
          (FirstReadStep(t) /\ fetches'[t][1] # "ok")
          => /\ pc'[t] = "idle"
             /\ Len(fetches'[t]) = 1
             /\ Device' = Device
             /\ Device' = pre[t]
      ]_vars

\* the first read of a refresh failed on a device whose outlets had
\* accumulated energy
C4_Witness ==
    \E t \in Tasks :
        /\ Refreshed(t) /\ fetches[t] = <<"none">> /\ ret[t] = "returned"
        /\ Len(outlets) = 2
        /\ outlets[2].energy_delivered > 0

(***************************************************************************)
(* C5.  Over any mix of update_data calls that succeed or fail, as long as *)
(* the time a call reads is not before the outlet's last update and the    *)
(* active power it stores is not negative, no step decreases an outlet's   *)
(* energy_delivered.                                                       *)
(***************************************************************************)
\* the time read in this step, if one was, is not before outlet j's last update
TimeInOrder(j) ==
    \A t \in Tasks :
        (SecondReadStep(t) /\ fetches'[t][2] # "raise")
        => current_update_time'[t] >= outlets[j].last_sensor_data_update_timestamp

\* the j-th outlet is the same object before and after the step
SameOutlet(j) ==
    /\ j \in 1..Len(outlets) /\ j \in 1..Len(outlets')
    /\ outlets'[j].obj = outlets[j].obj

C5_EnergyNeverDecreases ==
    [][\A j \in 1..Len(outlets) :
          ( /\ SameOutlet(j)
            /\ TimeInOrder(j)
            /\ outlets'[j].sensor_data["active_power"].n >= 0 )
          => outlets'[j].energy_delivered >= outlets[j].energy_delivered
      ]_vars

\* energy was accumulated, and a later refresh at the same clock reading stored
\* a lower power without losing it
C5_Witness ==
    \E t \in Tasks :
        /\ Refreshed(t) /\ ret[t] = "returned" /\ fetches[t] = <<"ok", "ok">>
        /\ Len(outlets) = 1
        /\ outlets[1].energy_delivered > 0
        /\ outlets[1].sensor_data["active_power"] = IntVal(0)

(***************************************************************************)
(* C6.  update_energy_delivered(now) leaves energy_delivered and the rest  *)
(* of the outlet as they are when the last update timestamp is 0, whatever *)
(* now and the active power, and when now is before the last update.       *)
(***************************************************************************)
\* active-power readings to try the integration with
TrialPowers == {0, 100, 250}

C6_IntegrationSkips ==
    \A j \in 1..Len(outlets) : \A now \in Times \cup {0} : \A p \in TrialPowers :
        LET o == [outlets[j] EXCEPT !.sensor_data["active_power"] = IntVal(p)]
        IN  ( \/ o.last_sensor_data_update_timestamp = 0
              \/ now < o.last_sensor_data_update_timestamp )
            => update_energy_delivered(o, now) = o

\* the first update of an outlet has stored 100 W and added no energy, and
\* the clock can return a time before that update
C6_Witness ==
    \E t \in Tasks :
        /\ Refreshed(t) /\ ret[t] = "returned" /\ fetches[t] = <<"ok", "ok">>
        /\ Len(outlets) = 1
        /\ outlets[1].sensor_data["active_power"] = IntVal(100)
        /\ outlets[1].energy_delivered = 0
        /\ \E now \in Times : now < outlets[1].last_sensor_data_update_timestamp

(***************************************************************************)
(* C7.  When the last update timestamp is not 0 and now is not before it,  *)
(* the integration adds exactly active_power * (now - last) / 3600 watt-   *)
(* hours, with the active power stored in this cycle: 100 W over 3600 s    *)
(* add 100 watt-hours.  (Energies are counted in 1/UnitsPerWh watt-hours.) *)
(***************************************************************************)
C7_Increment ==
    [][\A t \in Tasks :
          (SecondReadStep(t) /\ fetches'[t] = <<"ok", "ok">> /\ ret'[t] = "returned")
          => \A j \in 1..Len(outlets) :
                LET last == outlets[j].last_sensor_data_update_timestamp
                    now == current_update_time'[t]
                    power == outlets'[j].sensor_data["active_power"].n
                    added == outlets'[j].energy_delivered - outlets[j].energy_delivered
                IN  (last # 0 /\ now >= last)
                    => /\ added = power * (((now - last) * UnitsPerWh) \div 3600)
                       /\ (power = 100 /\ now - last = 3600) => added = 100 * UnitsPerWh
      ]_vars

\* 100 W over one hour have added 100 watt-hours to the first outlet
C7_Witness ==
    \E t \in Tasks :
        /\ Refreshed(t) /\ ret[t] = "returned" /\ fetches[t] = <<"ok", "ok">>
        /\ Len(outlets) >= 1
        /\ outlets[1].sensor_data["active_power"] = IntVal(100)
        /\ outlets[1].last_sensor_data_update_timestamp = 2 * 3600
        /\ outlets[1].energy_delivered = 100 * UnitsPerWh

(***************************************************************************)
(* C8.  An update_data that succeeds and finds the outlet count it had     *)
(* keeps the outlet objects: every outlet keeps its index, energy_support, *)
(* keys and initial_energy_delivered, is integrated from the timestamp it  *)
(* had before the call, and its energy_delivered is the one of before the  *)
(* call plus this cycle's increment, never reset.                          *)
(***************************************************************************)
C8_SameCountKeepsOutlets ==
    [][\A t \in Tasks :
          ( /\ SecondReadStep(t) /\ fetches'[t] = <<"ok", "ok">> /\ ret'[t] = "returned"
            /\ outlet_count = pre[t].outlet_count )
          => /\ Len(outlets') = Len(pre[t].outlets)
             /\ \A j \in 1..Len(pre[t].outlets) :
                   LET old == pre[t].outlets[j]
                       new == outlets'[j]
                       last == old.last_sensor_data_update_timestamp
                       now == current_update_time'[t]
                       power == new.sensor_data["active_power"].n
                       added == IF last = 0 \/ now < last THEN 0
                                ELSE power * (((now - last) * UnitsPerWh) \div 3600)
                   IN  /\ new.obj = old.obj
                       /\ new.index = old.index
                       /\ new.energy_support = old.energy_support
                       /\ new.keys = old.keys
                       /\ new.initial_energy_delivered = old.initial_energy_delivered
                       /\ new.energy_delivered = old.energy_delivered + added
                       /\ new.energy_delivered >= old.energy_delivered
      ]_vars

\* a refresh with the same count of two outlets has kept the seed of the
\* second outlet and added to its energy
C8_Witness ==
    \E t \in Tasks :
        /\ Refreshed(t) /\ ret[t] = "returned" /\ fetches[t] = <<"ok", "ok">>
        /\ Len(outlets) = 2
        /\ outlets[2].initial_energy_delivered \in Seeds
        /\ outlets[2].energy_delivered > 0

(***************************************************************************)
(* C9.  When the first read finds an outlet count other than the device's  *)
(* (the first discovery from 0 included), the outlet list becomes exactly  *)
(* that many newly built outlets, with indices 1..N in order, each with    *)
(* energy_delivered, initial_energy_delivered and timestamp 0 and with the *)
(* energy_support found by the same read.                                  *)
(***************************************************************************)
C9_CountChangeRebuilds ==
    [][\A t \in Tasks :
          (FirstReadStep(t) /\ fetches'[t] = <<"ok">> /\ outlet_count' # outlet_count)
          => /\ Len(outlets') = outlet_count'
             /\ \A i \in 1..Len(outlets') :
                   /\ IsFreshOutlet(outlets'[i], i, energy_support')
                   /\ \A j \in 1..Len(outlets) : outlets'[i].obj # outlets[j].obj
      ]_vars

\* one outlet with accumulated energy has been replaced by two new ones
C9_Witness ==
    \E t \in Tasks :
        /\ pc[t] = "round2"
        /\ pre[t].outlet_count = 1
        /\ pre[t].outlets[1].energy_delivered > 0
        /\ Len(outlets) = 2
        /\ outlets[1].energy_delivered = 0

(***************************************************************************)
(* C10.  authenticate() returns True only if its one read returned a value *)
(* whose text begins with "Raritan Dominion PX"; it returns False when the *)
(* link reports a failure, when the link raises and when the text does not *)
(* begin so; it never raises and changes nothing of the device or of an    *)
(* outlet.                                                                 *)
(***************************************************************************)
\* text begins with the characters of sig
BeginsWith(text, sig) ==
    /\ Len(text) >= Len(sig)
    /\ \A i \in 1..Len(sig) : text[i] = sig[i]

C10_Authenticate ==
    [][\A t \in Tasks :
          (\E agent \in ProbeAgents : authenticate(t, agent))
          => /\ ret'[t] \in {"true", "false"}
             /\ Len(fetches'[t]) = 1
             /\ ret'[t] = "true"
                   <=> ( /\ fetches'[t] = <<"ok">>
                         /\ result'[t].kind = "scalar"
                         /\ BeginsWith(StrOf(result'[t].v), Signature) )
             /\ Device' = Device
      ]_vars

\* a probe of a device with outlets has returned True
C10_Witness ==
    \E t \in Tasks :
        /\ op[t] = "authenticate" /\ ret[t] = "true"
        /\ Len(outlets) = 2
        /\ outlets[1].energy_delivered > 0

(***************************************************************************)
(* Steps of the callers of get_data(), for the properties below            *)
(***************************************************************************)
\* the step is a get_data() call
GetDataStep ==
    /\ data'.count >= 1
    /\ data'.count > data.count \/ (data.tampered /\ ~data'.tampered)

\* the step is a write to the dict that get_data() returned
TamperStep == ~data.tampered /\ data'.tampered

\* the step is an initialize_energy_delivered call
SeedStep == AllIdle /\ outlets' # outlets /\ ~TamperStep

C12_ReportedEnergy ==
    [][ /\ GetDataStep
           => /\ Len(data'.last.by_outlet) = Len(outlets)
              /\ \A j \in 1..Len(outlets) :
                    /\ data'.last.by_outlet[j].key = outlets[j].index
                    /\ data'.last.by_outlet[j].data.energy_delivered
                          = outlets[j].energy_delivered + outlets[j].initial_energy_delivered
        /\ SeedStep
           => /\ <<name, energy_support, outlet_count, cpu_temperature>>'
                    = <<name, energy_support, outlet_count, cpu_temperature>>
              /\ Len(outlets') = Len(outlets)
              /\ \A j \in 1..Len(outlets) :
                    outlets'[j] = [outlets[j] EXCEPT !.initial_energy_delivered =
                                      outlets'[j].initial_energy_delivered]
      ]_vars

\* an outlet seeded with 500 watt-hours has integrated 100 watt-hours, and
\* get_data() has reported 600
C12_Witness ==
    /\ data.count >= 1
    /\ Len(outlets) >= 1
    /\ outlets[1].initial_energy_delivered = 500 * UnitsPerWh
    /\ outlets[1].energy_delivered = 100 * UnitsPerWh
    /\ data.last.by_outlet[1].data.energy_delivered = 600 * UnitsPerWh

(***************************************************************************)
(* C13.  An update_data that succeeds reads the time once and uses it for  *)
(* every outlet: each outlet is integrated after its fields are stored     *)
(* (with the active power of this response), from the timestamp it held    *)
(* before this cycle, and only then is its timestamp overwritten; when the *)
(* call returns every outlet's timestamp is that one time.                 *)
(***************************************************************************)
C13_SingleNow ==
    [][\A t \in Tasks :
          (SecondReadStep(t) /\ fetches'[t] = <<"ok", "ok">> /\ ret'[t] = "returned")
          => LET now == current_update_time'[t]
             IN  /\ Len(outlets') = Len(outlets)
                 /\ \A j \in 1..Len(outlets) :
                       LET last == outlets[j].last_sensor_data_update_timestamp
                           stored == outlets'[j].sensor_data["active_power"]
                           elapsed == IF last = 0 \/ now < last THEN 0 ELSE now - last
                       IN  /\ outlets'[j].last_sensor_data_update_timestamp = now
                           /\ stored \in {results'[t].l[k] : k \in 1..Len(results'[t].l)}
                           /\ outlets'[j].energy_delivered
                                 = outlets[j].energy_delivered
                                     + stored.n * ((elapsed * UnitsPerWh) \div 3600)
      ]_vars

\* two outlets updated at hour 1 have been updated again at hour 2: both bear
\* the timestamp of hour 2 and have integrated one hour at 100 W and 200 W
C13_Witness ==
    \E t \in Tasks :
        /\ Refreshed(t) /\ ret[t] = "returned" /\ fetches[t] = <<"ok", "ok">>
        /\ current_update_time[t] = 2 * 3600
        /\ Len(outlets) = 2
        /\ \A j \in 1..2 :
              /\ outlets[j].last_sensor_data_update_timestamp = 2 * 3600
              /\ outlets[j].energy_delivered = j * 100 * UnitsPerWh

(***************************************************************************)
(* C14.  A call of update_data hands the link at most two requests, the    *)
(* discovery read first and the batched sensor read second, and each is    *)
(* answered once: no request is sent again.  The sensor read is sent only  *)
(* after the discovery read of the same call succeeded, and it lists the   *)
(* fields of the outlets as that discovery read left them, outlet by       *)
(* outlet.                                                                 *)
(***************************************************************************)
C14_TwoFetches ==
    [][\A t \in Tasks :
          op'[t] = "update_data"
          => LET sent == requests'[t]
                 N == Len(outlets')
                 F == IF N = 0 THEN 0 ELSE Len(outlets'[1].keys)
             IN  /\ Len(sent) \in 1..2
                 /\ sent[1] = << <<"SNMPv2-MIB", "sysDescr", 0>>,
                                 <<"SNMPv2-MIB", "sysName", 0>>,
                                 <<"PDU-MIB", "outletEnergySupport", 0>>,
                                 <<"PDU-MIB", "outletCount", 0>>,
                                 <<"PDU-MIB", "unitCpuTemp", 0>> >>
                 /\ Len(fetches'[t]) =
                       IF pc'[t] = "idle" THEN Len(sent) ELSE Len(sent) - 1
                 /\ pc'[t] = "round1" <=> (Len(sent) = 1 /\ fetches'[t] = <<>>)
                 /\ Len(sent) = 2 => fetches'[t][1] = "ok"
                 /\ fetches'[t] # <<>> /\ fetches'[t][1] # "ok" => Len(sent) = 1
                 /\ FirstReadStep(t) /\ fetches'[t] = <<"ok">>
                    => /\ Len(sent) = 2
                       /\ Len(sent[2]) = N * F
                       /\ \A j \in 1..N : \A p \in 1..F :
                             sent[2][(j - 1) * F + p]
                               = <<"PDU-MIB", MibObjectName(outlets'[j].keys[p]),
                                   outlets'[j].index>>
      ]_vars

\* a call on a device of one outlet found two outlets with energy support and
\* has sent its second request, of twelve fields, the last for outlet 2
C14_Witness ==
    \E t \in Tasks :
        /\ pc[t] = "round2"
        /\ pre[t].outlet_count = 1
        /\ Len(outlets) = 2
        /\ Len(requests[t]) = 2
        /\ Len(requests[t][2]) = 12
        /\ requests[t][2][12] = <<"PDU-MIB", "outletWattHours", 2>>

(***************************************************************************)
(* C20.  As claimed: when an update_data completed at time t0 on a device  *)
(* with outlets, any number of calls failed after it and a call then       *)
(* completes at t1 >= t0 and finds the outlet count the device has, every  *)
(* outlet's energy_delivered grows in that call by the active power it     *)
(* just stored times (t1 - t0) / 3600.                                     *)
(***************************************************************************)
C20_Original ==
    [][\A t \in Tasks :
          ( /\ SecondReadStep(t)
            /\ fetches'[t] = <<"ok", "ok">> /\ ret'[t] = "returned"
            /\ gap.t0 # 0 /\ gap.count >= 1
            /\ current_update_time'[t] >= gap.t0
            /\ outlet_count = pre[t].outlet_count )
          => /\ Len(outlets') = Len(outlets)
             /\ \A j \in 1..Len(outlets) :
                   LET t0 == gap.t0
                       t1 == current_update_time'[t]
                       power == outlets'[j].sensor_data["active_power"].n
                   IN  outlets'[j].energy_delivered - outlets[j].energy_delivered
                         = power * (((t1 - t0) * UnitsPerWh) \div 3600)
      ]_vars

(***************************************************************************)
(* C20, amended.  Calls that fail lose no time as long as none of them     *)
(* rebuilt the outlets: when an update_data completed at time t0, any      *)
(* number of calls failed after it (in their first or their second read,   *)
(* returning or raising) and a call then completes at t1 >= t0, no first   *)
(* read since t0 (those of the failed calls included) having found another *)
(* outlet count, every outlet's energy_delivered grows in that call by the *)
(* active power it just stored times (t1 - t0) / 3600, and had not changed *)
(* in between: every outlet still bore the timestamp t0.                   *)
(***************************************************************************)
C20_GapIntegrated ==
    [][ /\ (gap'.t0 # 0 /\ gap'.steady)
           => \A j \in 1..Len(outlets') :
                 outlets'[j].last_sensor_data_update_timestamp = gap'.t0
        /\ (gap.t0 # 0 /\ gap.steady /\ gap'.t0 = gap.t0 /\ gap'.steady)
           => /\ Len(outlets') = Len(outlets)
              /\ \A j \in 1..Len(outlets) :
                    outlets'[j].energy_delivered = outlets[j].energy_delivered
        /\ \A t \in Tasks :
              ( /\ SecondReadStep(t)
                /\ fetches'[t] = <<"ok", "ok">> /\ ret'[t] = "returned"
                /\ gap.t0 # 0 /\ gap.steady
                /\ current_update_time'[t] >= gap.t0 )
              => /\ Len(outlets') = Len(outlets)
                 /\ \A j \in 1..Len(outlets) :
                       LET t0 == gap.t0
                           t1 == current_update_time'[t]
                           power == outlets'[j].sensor_data["active_power"].n
                       IN  outlets'[j].energy_delivered - outlets[j].energy_delivered
                             = power * (((t1 - t0) * UnitsPerWh) \div 3600)
      ]_vars

\* a call completed at hour 1, a call failed, and a call completed at hour 2
\* with 100 W on the first outlet, which has gained 100 watt-hours
C20_Witness ==
    \E t \in Tasks :
        /\ Refreshed(t) /\ ret[t] = "returned" /\ fetches[t] = <<"ok", "ok">>
        /\ gap.bridged /\ gap.t0 = 2 * 3600
        /\ Len(outlets) >= 1
        /\ outlets[1].sensor_data["active_power"] = IntVal(100)
        /\ outlets[1].energy_delivered = 100 * UnitsPerWh

(***************************************************************************)
(* C15.  In every state (between the calls and at the awaits within them)  *)
(* the outlet list has exactly outlet_count elements and its i-th element  *)
(* has index i, so that get_outlet_by_index(i) is the outlet whose index   *)
(* is i, for every i in 1..outlet_count.                                   *)
(***************************************************************************)
C15_OutletsIndexed ==
    /\ Len(outlets) = outlet_count
    /\ \A i \in 1..outlet_count :
          /\ outlets[i].index = i
          /\ get_outlet_by_index(outlets, i).index = i

\* between two calls, on a device of two outlets that have accumulated
\* energy, get_outlet_by_index(2) is the second outlet
C15_Witness ==
    /\ AllIdle
    /\ outlet_count = 2
    /\ outlets[2].energy_delivered > outlets[1].energy_delivered
    /\ outlets[1].energy_delivered > 0
    /\ get_outlet_by_index(outlets, 2).energy_delivered = outlets[2].energy_delivered

(***************************************************************************)
(* C16.  As claimed: in every state each outlet's energy_support, and the  *)
(* presence of its "watt_hours" key, agree with the device's               *)
(* energy_support (a first read that finds another flag rebuilds the       *)
(* outlets).                                                               *)
(***************************************************************************)
C16_Original ==
    \A j \in 1..Len(outlets) :
        /\ outlets[j].energy_support = energy_support
        /\ ("watt_hours" \in DOMAIN outlets[j].sensor_data) <=> energy_support

(***************************************************************************)
(* C16, amended.  A first read that finds the outlet count the device has  *)
(* leaves the outlet list as it is, also when it finds another             *)
(* energy-support flag: the outlets keep the energy_support and the keys   *)
(* they were built with, which may differ from the device's flag.  The     *)
(* outlets are rebuilt, with the flag just found, only when the count      *)
(* differs.  In every state an outlet has the key "watt_hours" if and only *)
(* if its own energy_support is true, and all outlets have the same        *)
(* energy_support.                                                         *)
(***************************************************************************)
C16_FlagChangeKeepsOutlets ==
    [][ /\ \A t \in Tasks :
              (FirstReadStep(t) /\ fetches'[t] = <<"ok">>)
              => /\ outlet_count' = outlet_count => outlets' = outlets
                 /\ outlet_count' # outlet_count
                    => \A j \in 1..Len(outlets') :
                          outlets'[j].energy_support = energy_support'
        /\ \A j \in 1..Len(outlets') :
              /\ ("watt_hours" \in DOMAIN outlets'[j].sensor_data)
                    <=> outlets'[j].energy_support
              /\ outlets'[j].energy_support = outlets'[1].energy_support
      ]_vars

\* a first read has found energy support on a device whose two outlets were
\* built without it and have accumulated energy: the outlets are kept
C16_Witness ==
    \E t \in Tasks :
        /\ pc[t] = "round2"
        /\ energy_support /\ ~pre[t].energy_support
        /\ Len(outlets) = 2
        /\ ~outlets[1].energy_support
        /\ "watt_hours" \notin DOMAIN outlets[1].sensor_data
        /\ outlets[1].energy_delivered > 0

(***************************************************************************)
(* C17.  As claimed: once a first read has succeeded (the name is set), no *)
(* step changes the device's energy_support.                               *)
(***************************************************************************)
C17_Original ==
    [][name # <<>> => energy_support' = energy_support]_vars

(***************************************************************************)
(* C17, amended.  The device's energy_support is assigned by every first   *)
(* read that succeeds, and by nothing else: after such a read it is true   *)
(* if and only if the flag of that read is "Yes", so it changes when the   *)
(* link returns another flag than before; a first read that fails, a       *)
(* second read, authenticate and initialize_energy_delivered leave it.     *)
(***************************************************************************)
C17_FlagFollowsDiscovery ==
    [][ /\ \A t \in Tasks :
              (FirstReadStep(t) /\ fetches'[t] = <<"ok">>)
              => (energy_support' <=> result'[t].l[3] = StrVal(<<"Y", "e", "s">>))
        /\ (~ \E t \in Tasks : FirstReadStep(t) /\ fetches'[t] = <<"ok">>)
              => energy_support' = energy_support
      ]_vars

\* a first read has answered "No" to a device that had found "Yes" before
C17_Witness ==
    \E t \in Tasks :
        /\ pc[t] = "round2"
        /\ pre[t].name # <<>> /\ pre[t].energy_support
        /\ result[t].l[3] = StrVal(NoText)
        /\ ~energy_support

(***************************************************************************)
(* C18.  As claimed: the keys of every outlet's sensor_data are, in order, *)
(* current, voltage, active_power, power_factor, followed by watt_hours if *)
(* and only if the outlet's energy_support is true, so that the second     *)
(* read asks 4 or 5 values of each outlet.                                 *)
(***************************************************************************)
C18_Original ==
    /\ \A j \in 1..Len(outlets) :
          outlets[j].keys =
              <<"current", "voltage", "active_power", "power_factor">>
                  \o (IF outlets[j].energy_support THEN <<"watt_hours">> ELSE <<>>)
    /\ \A t \in Tasks :
          pc[t] = "round2"
          => \A j \in 1..Len(outlets) :
                Cardinality({k \in 1..Len(oids[t]) : oids[t][k][3] = outlets[j].index})
                  = IF outlets[j].energy_support THEN 5 ELSE 4

(***************************************************************************)
(* C18, amended.  The keys of every outlet's sensor_data are, in order,    *)
(* label, current, voltage, active_power, power_factor, followed by        *)
(* watt_hours if and only if the outlet's energy_support is true.  They    *)
(* are set when the outlet is built and no step adds, removes or reorders  *)
(* a key of an outlet, so the second read asks 5 values of an outlet       *)
(* without energy support and 6 of an outlet with it.                      *)
(***************************************************************************)
C18_FieldSet ==
    [][ /\ \A j \in 1..Len(outlets') :
              LET o == outlets'[j]
                  n == IF o.energy_support THEN 6 ELSE 5
              IN  /\ o.keys = SubSeq(<<"label", "current", "voltage", "active_power",
                                       "power_factor", "watt_hours">>, 1, n)
                  /\ DOMAIN o.sensor_data = {o.keys[p] : p \in 1..n}
        /\ \A j \in 1..Len(outlets) :
              SameOutlet(j)
              => /\ outlets'[j].keys = outlets[j].keys
                 /\ DOMAIN outlets'[j].sensor_data = DOMAIN outlets[j].sensor_data
        /\ \A t \in Tasks :
              (FirstReadStep(t) /\ fetches'[t] = <<"ok">>)
              => \A j \in 1..Len(outlets') :
                    Cardinality({k \in 1..Len(oids'[t]) :
                                    oids'[t][k][3] = outlets'[j].index})
                      = IF outlets'[j].energy_support THEN 6 ELSE 5
      ]_vars

\* the second outlet of a device with energy support has been updated twice
\* and holds six fields, the watt-hours among them
C18_Witness ==
    \E t \in Tasks :
        /\ Refreshed(t) /\ ret[t] = "returned" /\ fetches[t] = <<"ok", "ok">>
        /\ Len(outlets) = 2
        /\ outlets[2].energy_support
        /\ Len(outlets[2].keys) = 6
        /\ outlets[2].sensor_data["watt_hours"] = IntVal(5021)
        /\ outlets[2].energy_delivered > 0

(***************************************************************************)
(* C19.  Calls of update_data on one device are not safe to overlap.  When *)
(* a call runs with no other call in flight from its start to its end, its *)
(* second read finds the outlets its request was built from: the request   *)
(* lists the fields of the outlets as they are, outlet by outlet, and a    *)
(* full response is stored value by value in the fields that asked for it, *)
(* every outlet stamped with the one time the call read.  When two calls   *)
(* interleave at their awaits, a call can store its response in outlets    *)
(* that another call built after the request was sent (see the witness).   *)
(***************************************************************************)
C19_SerializedAligned ==
    [][\A t \in Tasks :
          (SecondReadStep(t) /\ alone[t])
          => LET N == Len(outlets)
                 F == IF N = 0 THEN 0 ELSE Len(outlets[1].keys)
                 sent == requests[t][2]
             IN  /\ \A j \in 1..N : Len(outlets[j].keys) = F
                 /\ Len(sent) = N * F
                 /\ oids[t] = sent
                 /\ \A j \in 1..N : \A p \in 1..F :
                       sent[(j - 1) * F + p]
                         = <<"PDU-MIB", MibObjectName(outlets[j].keys[p]), outlets[j].index>>
                 /\ fetches'[t] = <<"ok", "ok">>
                    => /\ ret'[t] = "returned"
                       /\ Len(outlets') = N
                       /\ \A j \in 1..N :
                             /\ outlets'[j].last_sensor_data_update_timestamp
                                   = current_update_time'[t]
                             /\ \A p \in 1..F :
                                   outlets'[j].sensor_data[outlets[j].keys[p]]
                                     = results'[t].l[(j - 1) * F + p]
      ]_vars

\* a call that asked the ten fields of two outlets has returned after another
\* call built one outlet with energy support: the label of outlet 2 is
\* stored as the watt-hours of outlet 1
C19_Witness ==
    \E t \in Tasks :
        /\ Refreshed(t) /\ ret[t] = "returned" /\ fetches[t] = <<"ok", "ok">>
        /\ ~alone[t]
        /\ Len(requests[t]) = 2
        /\ Len(requests[t][2]) = 10
        /\ Len(outlets) = 1
        /\ outlets[1].energy_support
        /\ outlets[1].sensor_data["watt_hours"] = StrVal(<<"o", "u", "t", "2">>)

====
